---- MODULE Spec2Model ----
(***************************************************************************)
(* Subscription service: the orchestration layer (two implementations of  *)
(* package service are in the repository: the one with typed errors,       *)
(* ValidationError / NotFoundError / ErrNoUpdates, and the one that        *)
(* returns plain fmt.Errorf errors) over the persistence gateway           *)
(* (package repository) and the subscriptions table.                       *)
(*                                                                         *)
(* The relational store is modelled by what its statements do on the one   *)
(* table of the migration, its two CHECK constraints included.  The store  *)
(* is taken to be up: a lost connection is not modelled.                   *)
(***************************************************************************)
EXTENDS Integers, Sequences, FiniteSets, TLC

VARIABLES store, nextID, now, last, inflight, applied

vars == <<store, nextID, now, last, inflight, applied>>

(***************************************************************************)
(* Bounds.                                                                 *)
(***************************************************************************)
\* how many identifiers uuid.New() hands out in one behaviour
MaxSubs == 2
\* how many subscriptions are created where pages of a list are looked at
MaxRows == 3
\* how many times time.Now() is read in one behaviour
MaxClock == 3

(***************************************************************************)
(* Values.                                                                 *)
(***************************************************************************)
\* SQL NULL in the end_date column / a nil *time.Time; every date is > NULL
NULL == 0

\* a calendar date (DATE column, time.Time at midnight UTC), ordered as integers
Date(m, d) == m * 100 + d

\* optional (pointer) request fields: nil or a value
None == <<>>
Some(x) == <<x>>

\* date strings, by the layout they are written in
MonthYear(m) == [layout |-> "01-2006", m |-> m, d |-> 1]
FullDate(m, d) == [layout |-> "2006-01-02", m |-> m, d |-> d]
EmptyString == [layout |-> "", m |-> 0, d |-> 0]
MalformedDate == [layout |-> "malformed", m |-> 0, d |-> 0]

\* time.Parse(layout, s): succeeds only on a string written in that layout
TimeParse(layout, s) ==
    IF s.layout = layout
    THEN [ok |-> TRUE, t |-> Date(s.m, s.d)]
    ELSE [ok |-> FALSE, t |-> NULL]

\* identifier strings: the canonical text of UUID n, or text that is no UUID
UUIDString(n) == [uuid |-> TRUE, n |-> n]
MalformedUUID == [uuid |-> FALSE, n |-> 0]

\* uuid.Parse(s)
UUIDParse(s) == [ok |-> s.uuid, id |-> s.n]

\* service names are strings: sequences of characters
Netflix == <<"N", "e", "t">>
TV == <<"T", "V">>

(***************************************************************************)
(* Errors.                                                                 *)
(***************************************************************************)
NoError == [type |-> "nil", field |-> ""]
ValidationError(field) == [type |-> "ValidationError", field |-> field]
NotFoundError == [type |-> "NotFoundError", field |-> ""]
ErrNoUpdates == [type |-> "ErrNoUpdates", field |-> ""]
\* fmt.Errorf(msg + ": %w", err): an error of no declared type, known by its text
Errorf(msg) == [type |-> "error", field |-> msg]

\* what the repository hands back: nil, sql.ErrNoRows, or a wrapped driver error
RepoOK == "nil"
ErrNoRows == "sql.ErrNoRows"
RepoFailed == "failed"

(***************************************************************************)
(* The subscriptions table (migrations/create_table.up.sql).               *)
(***************************************************************************)
\* the columns an update may name (service.Update builds the map from these)
Columns == {"service_name", "price", "end_date"}

\* faulty variant: the table without its date CHECK
CheckConstraints_PriceOnly(row) == row.price >= 0

\* the two CHECK constraints of the table
CheckConstraints(row) ==
    /\ row.price >= 0
    /\ (row.end_date = NULL \/ row.end_date >= row.start_date)

\* store without the row of id
Without(st, id) == [i \in DOMAIN st \ {id} |-> st[i]]

\* store with row added or replaced under its id
With(st, row) == [i \in DOMAIN st \cup {row.id} |-> IF i = row.id THEN row ELSE st[i]]

(***************************************************************************)
(* LIKE / ILIKE of PostgreSQL: % matches any run of characters, _ any one  *)
(* character, every other character itself; ILIKE folds case.              *)
(***************************************************************************)
Lower(c) ==
    CASE c = "N" -> "n"
      [] c = "E" -> "e"
      [] c = "T" -> "t"
      [] c = "V" -> "v"
      [] OTHER -> c

RECURSIVE ILike(_, _)
ILike(s, p) ==
    IF p = <<>> THEN s = <<>>
    ELSE IF Head(p) = "%"
         THEN ILike(s, Tail(p)) \/ (s # <<>> /\ ILike(Tail(s), p))
         ELSE /\ s # <<>>
              /\ (Head(p) = "_" \/ Lower(Head(s)) = Lower(Head(p)))
              /\ ILike(Tail(s), Tail(p))

(***************************************************************************)
(* Persistence gateway (package repository).  Each operator gives the      *)
(* error the method returns and the table after its statement.             *)
(***************************************************************************)
\* faulty variant: Create that stamps updated_at alone
RepoCreate_UpdatedAtOnly(st, sub, t) ==
    LET row == [sub EXCEPT !.updated_at = t]
    IN  IF row.id \notin DOMAIN st /\ CheckConstraints(row)
        THEN [err |-> RepoOK, store |-> With(st, row), sub |-> row]
        ELSE [err |-> RepoFailed, store |-> st, sub |-> row]

\* Create: sets both timestamps to now and inserts; the INSERT fails on a
\* duplicate primary key or a violated CHECK and then inserts nothing
RepoCreate(st, sub, t) ==
    LET row == [sub EXCEPT !.created_at = t, !.updated_at = t]
    IN  IF row.id \notin DOMAIN st /\ CheckConstraints(row)
        THEN [err |-> RepoOK, store |-> With(st, row), sub |-> row]
        ELSE [err |-> RepoFailed, store |-> st, sub |-> row]

\* the row GetByID scans, or the nil it returns on sql.ErrNoRows
Absent == [id |-> 0]

RepoGetByID(st, id) ==
    IF id \in DOMAIN st THEN [err |-> RepoOK, sub |-> st[id]]
                        ELSE [err |-> RepoOK, sub |-> Absent]

\* faulty variant: an UPDATE that writes all three columns, zero values for the absent
ApplyUpdates_AllColumns(row, updates, t) ==
    [row EXCEPT
        !.service_name = IF "service_name" \in DOMAIN updates
                         THEN updates["service_name"] ELSE <<>>,
        !.price = IF "price" \in DOMAIN updates THEN updates["price"] ELSE 0,
        !.end_date = IF "end_date" \in DOMAIN updates THEN updates["end_date"] ELSE NULL,
        !.updated_at = t]

\* faulty variant: an UPDATE that leaves updated_at alone
ApplyUpdates_KeepsUpdatedAt(row, updates, t) ==
    [row EXCEPT
        !.service_name = IF "service_name" \in DOMAIN updates
                         THEN updates["service_name"] ELSE @,
        !.price = IF "price" \in DOMAIN updates THEN updates["price"] ELSE @,
        !.end_date = IF "end_date" \in DOMAIN updates THEN updates["end_date"] ELSE @]

\* faulty variant: an UPDATE that clears the end date unless it is named
ApplyUpdates_ClearsEndDate(row, updates, t) ==
    [row EXCEPT
        !.service_name = IF "service_name" \in DOMAIN updates
                         THEN updates["service_name"] ELSE @,
        !.price = IF "price" \in DOMAIN updates THEN updates["price"] ELSE @,
        !.end_date = IF "end_date" \in DOMAIN updates THEN updates["end_date"] ELSE NULL,
        !.updated_at = t]

\* the row that UPDATE ... SET <each key of updates>, updated_at = t makes of row
ApplyUpdates(row, updates, t) ==
    [row EXCEPT
        !.service_name = IF "service_name" \in DOMAIN updates
                         THEN updates["service_name"] ELSE @,
        !.price = IF "price" \in DOMAIN updates THEN updates["price"] ELSE @,
        !.end_date = IF "end_date" \in DOMAIN updates THEN updates["end_date"] ELSE @,
        !.updated_at = t]

\* faulty variant: Update that does not look at RowsAffected
RepoUpdate_IgnoresRowsAffected(st, id, updates, t) ==
    IF DOMAIN updates = {}
    THEN [err |-> RepoOK, store |-> st, exec |-> FALSE]
    ELSE IF id \notin DOMAIN st
    THEN [err |-> RepoOK, store |-> st, exec |-> TRUE]
    ELSE LET row == ApplyUpdates(st[id], updates, t)
         IN  IF CheckConstraints(row)
             THEN [err |-> RepoOK, store |-> With(st, row), exec |-> TRUE]
             ELSE [err |-> RepoFailed, store |-> st, exec |-> TRUE]

\* Update: nothing to do for an empty map (no statement, no clock read);
\* otherwise one UPDATE ... WHERE id = $n: no row affected is sql.ErrNoRows,
\* a violated CHECK fails the statement and changes nothing.
\* exec: whether a statement was sent.
RepoUpdate(st, id, updates, t) ==
    IF DOMAIN updates = {}
    THEN [err |-> RepoOK, store |-> st, exec |-> FALSE]
    ELSE IF id \notin DOMAIN st
    THEN [err |-> ErrNoRows, store |-> st, exec |-> TRUE]
    ELSE LET row == ApplyUpdates(st[id], updates, t)
         IN  IF CheckConstraints(row)
             THEN [err |-> RepoOK, store |-> With(st, row), exec |-> TRUE]
             ELSE [err |-> RepoFailed, store |-> st, exec |-> TRUE]

\* faulty variant: a delete that reports success and keeps the row
RepoDelete_KeepsRow(st, id) ==
    IF id \in DOMAIN st
    THEN [err |-> RepoOK, store |-> st]
    ELSE [err |-> ErrNoRows, store |-> st]

\* Delete: DELETE ... WHERE id = $1; no row affected is sql.ErrNoRows
RepoDelete(st, id) ==
    IF id \in DOMAIN st
    THEN [err |-> RepoOK, store |-> Without(st, id)]
    ELSE [err |-> ErrNoRows, store |-> st]

\* faulty variant: a WHERE clause whose end-date bound leaves out open-ended rows
ListMatches_NullEndExcluded(row, filter) ==
    /\ (filter.UserID # None => row.user_id = filter.UserID[1])
    /\ (filter.ServiceName # None =>
            ILike(row.service_name, <<"%">> \o filter.ServiceName[1] \o <<"%">>))
    /\ (filter.StartDate # None => row.start_date >= filter.StartDate[1])
    /\ (filter.EndDate # None =>
            (row.end_date # NULL /\ row.end_date <= filter.EndDate[1]))

\* the WHERE clause List builds from the filter
ListMatches(row, filter) ==
    /\ (filter.UserID # None => row.user_id = filter.UserID[1])
    /\ (filter.ServiceName # None =>
            ILike(row.service_name, <<"%">> \o filter.ServiceName[1] \o <<"%">>))
    /\ (filter.StartDate # None => row.start_date >= filter.StartDate[1])
    /\ (filter.EndDate # None =>
            (row.end_date = NULL \/ row.end_date <= filter.EndDate[1]))

\* the orders ORDER BY start_date DESC may give the ids S (ties in any order)
Orderings(st, S) ==
    {s \in [1..Cardinality(S) -> S] :
        /\ \A i, j \in DOMAIN s : i # j => s[i] # s[j]
        /\ \A i, j \in DOMAIN s : i < j => st[s[i]].start_date >= st[s[j]].start_date}

Min(a, b) == IF a < b THEN a ELSE b

\* faulty variant: the limit cut before the offset is skipped
Page_LimitBeforeOffset(s, limit, offset) ==
    LET cut == IF limit > 0 THEN SubSeq(s, 1, Min(limit, Len(s))) ELSE s
    IN  IF offset > 0 THEN SubSeq(cut, offset + 1, Len(cut)) ELSE cut

\* LIMIT l OFFSET o on an ordered result, each applied only when > 0
Page(s, limit, offset) ==
    LET skipped == IF offset > 0 THEN SubSeq(s, offset + 1, Len(s)) ELSE s
    IN  IF limit > 0 THEN SubSeq(skipped, 1, Min(limit, Len(skipped))) ELSE skipped

\* List: the results the query may give, each the rows in order; the slice
\* starts nil and is only appended to, so no row leaves it nil
RepoList(st, filter) ==
    LET S == {i \in DOMAIN st : ListMatches(st[i], filter)}
    IN  {[err |-> RepoOK,
          isNil |-> Page(s, filter.Limit, filter.Offset) = <<>>,
          rows |-> [k \in DOMAIN Page(s, filter.Limit, filter.Offset) |->
                        st[Page(s, filter.Limit, filter.Offset)[k]]]] :
         s \in Orderings(st, S)}

\* faulty variant: a WHERE clause that asks for containment in the window
AggregateMatches_Containment(row, startDate, endDate, userID, serviceName) ==
    /\ row.start_date >= startDate
    /\ (row.end_date # NULL /\ row.end_date <= endDate)
    /\ (userID # None => row.user_id = userID[1])
    /\ (serviceName # None => ILike(row.service_name, serviceName[1]))

\* the WHERE clause of Aggregate
AggregateMatches(row, startDate, endDate, userID, serviceName) ==
    /\ row.start_date <= endDate
    /\ (row.end_date = NULL \/ row.end_date >= startDate)
    /\ (userID # None => row.user_id = userID[1])
    /\ (serviceName # None => ILike(row.service_name, serviceName[1]))

RECURSIVE SumPrice(_, _)
SumPrice(st, S) ==
    IF S = {} THEN 0
    ELSE LET i == CHOOSE i \in S : TRUE
         IN  st[i].price + SumPrice(st, S \ {i})

\* Aggregate: SELECT COALESCE(SUM(price), 0) over the matching rows
RepoAggregate(st, startDate, endDate, userID, serviceName) ==
    [err |-> RepoOK,
     total |-> SumPrice(st, {i \in DOMAIN st :
                   AggregateMatches(st[i], startDate, endDate, userID, serviceName)})]

(***************************************************************************)
(* Request conversion (package model).                                     *)
(***************************************************************************)
\* a Subscription before the repository stamps it: zero timestamps
NewSubscription(id, req, userID, startDate, endDate) ==
    [id |-> id, service_name |-> req.ServiceName, price |-> req.Price,
     user_id |-> userID, start_date |-> startDate, end_date |-> endDate,
     created_at |-> 0, updated_at |-> 0]

\* CreateSubscriptionRequest.ToSubscription, nid the identifier uuid.New()
\* gives next: user id, then start date, then the fresh identifier, then the
\* end date when it is not "".  nextID: the next identifier after the call.
ToSubscription(req, nid) ==
    LET userID == UUIDParse(req.UserID)
        startDate == TimeParse("01-2006", req.StartDate)
        endDate == TimeParse("01-2006", req.EndDate)
    IN  IF ~userID.ok \/ ~startDate.ok
        THEN [ok |-> FALSE, sub |-> Absent, nextID |-> nid]
        ELSE IF req.EndDate = EmptyString
        THEN [ok |-> TRUE, nextID |-> nid + 1,
              sub |-> NewSubscription(nid, req, userID.id, startDate.t, NULL)]
        ELSE IF ~endDate.ok
        THEN [ok |-> FALSE, sub |-> Absent, nextID |-> nid + 1]
        ELSE [ok |-> TRUE, nextID |-> nid + 1,
              sub |-> NewSubscription(nid, req, userID.id, startDate.t, endDate.t)]

(***************************************************************************)
(* Orchestration layer (package service).  Each ...Result operator gives   *)
(* what one call returns (err, ret), the repository methods it called      *)
(* (calls), whether a statement reached the store (exec), and the store,   *)
(* identifier source and clock after it.                                   *)
(***************************************************************************)
Out(err, ret, calls, exec, st, nid, t) ==
    [err |-> err, ret |-> ret, calls |-> calls, exec |-> exec,
     store |-> st, nextID |-> nid, now |-> t]

\* the map Update builds is a function from the columns named to their values
UpdatesMap(present, name, price, endDate) ==
    [c \in present |-> CASE c = "service_name" -> name
                         [] c = "price" -> price
                         [] c = "end_date" -> endDate]

\* faulty variant: an end date of "" taken for an absent one
Present_EmptyEndDateAbsent(req) ==
    (IF req.ServiceName # None THEN {"service_name"} ELSE {})
    \cup (IF req.Price # None THEN {"price"} ELSE {})
    \cup (IF req.EndDate # None /\ req.EndDate # Some(EmptyString)
          THEN {"end_date"} ELSE {})

\* the columns an UpdateSubscriptionRequest names: its non-nil fields
Present(req) ==
    (IF req.ServiceName # None THEN {"service_name"} ELSE {})
    \cup (IF req.Price # None THEN {"price"} ELSE {})
    \cup (IF req.EndDate # None THEN {"end_date"} ELSE {})

\* the value Update puts under "end_date": nil for "", else the parsed date
EndDateValue(layout, req) ==
    IF req.EndDate = None \/ req.EndDate = Some(EmptyString)
    THEN [ok |-> TRUE, t |-> NULL]
    ELSE TimeParse(layout, req.EndDate[1])

FieldOr(opt, default) == IF opt = None THEN default ELSE opt[1]

(*------------------------- typed-error service --------------------------*)
\* faulty variant: Create that checks the price after the insert
CreateResult_PriceCheckedLast(st, nid, t, req) ==
    LET c == ToSubscription(req, nid)
    IN  IF ~c.ok
        THEN Out(ValidationError("request"), Absent, {}, FALSE, st, c.nextID, t)
        ELSE LET r == RepoCreate(st, c.sub, t + 1)
             IN  IF req.Price < 0
                 THEN Out(ValidationError("price"), Absent,
                          {"Create"}, TRUE, r.store, c.nextID, t + 1)
                 ELSE IF r.err # RepoOK
                 THEN Out(Errorf("failed to create subscription"), Absent,
                          {"Create"}, TRUE, r.store, c.nextID, t + 1)
                 ELSE Out(NoError, r.sub, {"Create"}, TRUE, r.store, c.nextID, t + 1)

CreateResult(st, nid, t, req) ==
    IF req.Price < 0
    THEN Out(ValidationError("price"), Absent, {}, FALSE, st, nid, t)
    ELSE LET c == ToSubscription(req, nid)
         IN  IF ~c.ok
             THEN Out(ValidationError("request"), Absent, {}, FALSE, st, c.nextID, t)
             ELSE LET r == RepoCreate(st, c.sub, t + 1)
                  IN  IF r.err # RepoOK
                      THEN Out(Errorf("failed to create subscription"), Absent,
                               {"Create"}, TRUE, r.store, c.nextID, t + 1)
                      ELSE Out(NoError, r.sub, {"Create"}, TRUE, r.store, c.nextID, t + 1)

GetByIDResult(st, nid, t, id) ==
    LET uuidID == UUIDParse(id)
    IN  IF ~uuidID.ok
        THEN Out(ValidationError("id"), Absent, {}, FALSE, st, nid, t)
        ELSE LET r == RepoGetByID(st, uuidID.id)
             IN  IF r.err # RepoOK
                 THEN Out(Errorf("failed to get subscription"), Absent,
                          {"GetByID"}, TRUE, st, nid, t)
                 ELSE IF r.sub = Absent
                 THEN Out(NotFoundError, Absent, {"GetByID"}, TRUE, st, nid, t)
                 ELSE Out(NoError, r.sub, {"GetByID"}, TRUE, st, nid, t)

UpdateResult(st, nid, t, id, req) ==
    LET uuidID == UUIDParse(id)
        endDate == EndDateValue("2006-01-02", req)
        updates == UpdatesMap(Present(req), FieldOr(req.ServiceName, <<>>),
                              FieldOr(req.Price, 0), endDate.t)
    IN  IF ~uuidID.ok
        THEN Out(ValidationError("id"), Absent, {}, FALSE, st, nid, t)
        ELSE IF req.Price # None /\ req.Price[1] < 0
        THEN Out(ValidationError("price"), Absent, {}, FALSE, st, nid, t)
        ELSE IF ~endDate.ok
        THEN Out(ValidationError("end_date"), Absent, {}, FALSE, st, nid, t)
        ELSE IF DOMAIN updates = {}
        THEN Out(ErrNoUpdates, Absent, {}, FALSE, st, nid, t)
        ELSE LET r == RepoUpdate(st, uuidID.id, updates, t + 1)
             IN  IF r.err = ErrNoRows
                 THEN Out(NotFoundError, Absent, {"Update"}, r.exec, r.store, nid, t + 1)
                 ELSE IF r.err # RepoOK
                 THEN Out(Errorf("failed to update subscription"), Absent,
                          {"Update"}, r.exec, r.store, nid, t + 1)
                 ELSE Out(NoError, Absent, {"Update"}, r.exec, r.store, nid, t + 1)

DeleteResult(st, nid, t, id) ==
    LET uuidID == UUIDParse(id)
    IN  IF ~uuidID.ok
        THEN Out(ValidationError("id"), Absent, {}, FALSE, st, nid, t)
        ELSE LET r == RepoDelete(st, uuidID.id)
             IN  IF r.err = ErrNoRows
                 THEN Out(NotFoundError, Absent, {"Delete"}, TRUE, r.store, nid, t)
                 ELSE IF r.err # RepoOK
                 THEN Out(Errorf("failed to delete subscription"), Absent,
                          {"Delete"}, TRUE, r.store, nid, t)
                 ELSE Out(NoError, Absent, {"Delete"}, TRUE, r.store, nid, t)

\* the nil slice List returns beside an error
NilList == [isNil |-> TRUE, rows |-> <<>>]

\* SubscriptionFilter as List fills it
Filter(userID, serviceName, startDate, endDate, limit, offset) ==
    [UserID |-> userID, ServiceName |-> serviceName, StartDate |-> startDate,
     EndDate |-> endDate, Limit |-> limit, Offset |-> offset]

\* an optional string parsed when present
ParseOpt(layout, opt) ==
    IF opt = None THEN [ok |-> TRUE, v |-> None]
    ELSE LET p == TimeParse(layout, opt[1])
         IN  [ok |-> p.ok, v |-> Some(p.t)]

UUIDParseOpt(opt) ==
    IF opt = None THEN [ok |-> TRUE, v |-> None]
    ELSE LET p == UUIDParse(opt[1])
         IN  [ok |-> p.ok, v |-> Some(p.id)]

\* List: the set of outcomes (the order of rows with equal start dates is the
\* store's choice)
ListResults(st, nid, t, a) ==
    LET userID == UUIDParseOpt(a.userID)
        startDate == ParseOpt("2006-01-02", a.startDate)
        endDate == ParseOpt("2006-01-02", a.endDate)
    IN  IF ~userID.ok
        THEN {Out(ValidationError("user_id"), NilList, {}, FALSE, st, nid, t)}
        ELSE IF ~startDate.ok
        THEN {Out(ValidationError("start_date"), NilList, {}, FALSE, st, nid, t)}
        ELSE IF ~endDate.ok
        THEN {Out(ValidationError("end_date"), NilList, {}, FALSE, st, nid, t)}
        ELSE {IF r.err # RepoOK
              THEN Out(Errorf("failed to list subscriptions"), NilList,
                       {"List"}, TRUE, st, nid, t)
              ELSE Out(NoError, [isNil |-> r.isNil, rows |-> r.rows],
                       {"List"}, TRUE, st, nid, t) :
              r \in RepoList(st, Filter(userID.v, a.serviceName, startDate.v,
                                        endDate.v, a.limit, a.offset))}

AggregateResult(st, nid, t, req) ==
    LET startDate == TimeParse("2006-01-02", req.StartDate)
        endDate == TimeParse("2006-01-02", req.EndDate)
        userID == UUIDParseOpt(req.UserID)
    IN  IF ~startDate.ok
        THEN Out(ValidationError("start_date"), Absent, {}, FALSE, st, nid, t)
        ELSE IF ~endDate.ok
        THEN Out(ValidationError("end_date"), Absent, {}, FALSE, st, nid, t)
        ELSE IF startDate.t > endDate.t
        THEN Out(ValidationError("date_range"), Absent, {}, FALSE, st, nid, t)
        ELSE IF ~userID.ok
        THEN Out(ValidationError("user_id"), Absent, {}, FALSE, st, nid, t)
        ELSE LET r == RepoAggregate(st, startDate.t, endDate.t, userID.v, req.ServiceName)
             IN  IF r.err # RepoOK
                 THEN Out(Errorf("failed to aggregate subscriptions"), Absent,
                          {"Aggregate"}, TRUE, st, nid, t)
                 ELSE Out(NoError, [TotalPrice |-> r.total],
                          {"Aggregate"}, TRUE, st, nid, t)

(*------------------------- plain-error service --------------------------*)
PlainCreateResult(st, nid, t, req) ==
    LET c == ToSubscription(req, nid)
    IN  IF ~c.ok
        THEN Out(Errorf("invalid request data"), Absent, {}, FALSE, st, c.nextID, t)
        ELSE LET r == RepoCreate(st, c.sub, t + 1)
             IN  IF r.err # RepoOK
                 THEN Out(Errorf("failed to create subscription"), Absent,
                          {"Create"}, TRUE, r.store, c.nextID, t + 1)
                 ELSE Out(NoError, r.sub, {"Create"}, TRUE, r.store, c.nextID, t + 1)

PlainGetByIDResult(st, nid, t, id) ==
    LET uuidID == UUIDParse(id)
    IN  IF ~uuidID.ok
        THEN Out(Errorf("invalid id format"), Absent, {}, FALSE, st, nid, t)
        ELSE LET r == RepoGetByID(st, uuidID.id)
             IN  IF r.err # RepoOK
                 THEN Out(Errorf("failed to get subscription"), Absent,
                          {"GetByID"}, TRUE, st, nid, t)
                 ELSE Out(NoError, r.sub, {"GetByID"}, TRUE, st, nid, t)

PlainUpdateResult(st, nid, t, id, req) ==
    LET uuidID == UUIDParse(id)
        endDate == EndDateValue("01-2006", req)
        updates == UpdatesMap(Present(req), FieldOr(req.ServiceName, <<>>),
                              FieldOr(req.Price, 0), endDate.t)
        tNow == IF DOMAIN updates = {} THEN t ELSE t + 1
    IN  IF ~uuidID.ok
        THEN Out(Errorf("invalid id format"), Absent, {}, FALSE, st, nid, t)
        ELSE IF ~endDate.ok
        THEN Out(Errorf("invalid end date format"), Absent, {}, FALSE, st, nid, t)
        ELSE LET r == RepoUpdate(st, uuidID.id, updates, tNow)
             IN  IF r.err = ErrNoRows
                 THEN Out(Errorf("subscription not found"), Absent,
                          {"Update"}, r.exec, r.store, nid, tNow)
                 ELSE IF r.err # RepoOK
                 THEN Out(Errorf("failed to update subscription"), Absent,
                          {"Update"}, r.exec, r.store, nid, tNow)
                 ELSE Out(NoError, Absent, {"Update"}, r.exec, r.store, nid, tNow)

PlainDeleteResult(st, nid, t, id) ==
    LET uuidID == UUIDParse(id)
    IN  IF ~uuidID.ok
        THEN Out(Errorf("invalid id format"), Absent, {}, FALSE, st, nid, t)
        ELSE LET r == RepoDelete(st, uuidID.id)
             IN  IF r.err = ErrNoRows
                 THEN Out(Errorf("subscription not found"), Absent,
                          {"Delete"}, TRUE, r.store, nid, t)
                 ELSE IF r.err # RepoOK
                 THEN Out(Errorf("failed to delete subscription"), Absent,
                          {"Delete"}, TRUE, r.store, nid, t)
                 ELSE Out(NoError, Absent, {"Delete"}, TRUE, r.store, nid, t)

PlainListResults(st, nid, t, a) ==
    LET userID == UUIDParseOpt(a.userID)
        startDate == ParseOpt("01-2006", a.startDate)
        endDate == ParseOpt("01-2006", a.endDate)
    IN  IF ~userID.ok
        THEN {Out(Errorf("invalid user_id format"), NilList, {}, FALSE, st, nid, t)}
        ELSE IF ~startDate.ok
        THEN {Out(Errorf("invalid start_date format"), NilList, {}, FALSE, st, nid, t)}
        ELSE IF ~endDate.ok
        THEN {Out(Errorf("invalid end_date format"), NilList, {}, FALSE, st, nid, t)}
        ELSE {IF r.err # RepoOK
              THEN Out(Errorf("failed to list subscriptions"), NilList,
                       {"List"}, TRUE, st, nid, t)
              ELSE Out(NoError, [isNil |-> r.isNil, rows |-> r.rows],
                       {"List"}, TRUE, st, nid, t) :
              r \in RepoList(st, Filter(userID.v, a.serviceName, startDate.v,
                                        endDate.v, a.limit, a.offset))}

PlainAggregateResult(st, nid, t, req) ==
    LET startDate == TimeParse("01-2006", req.StartDate)
        endDate == TimeParse("01-2006", req.EndDate)
        userID == UUIDParseOpt(req.UserID)
    IN  IF ~startDate.ok
        THEN Out(Errorf("invalid start_date format"), Absent, {}, FALSE, st, nid, t)
        ELSE IF ~endDate.ok
        THEN Out(Errorf("invalid end_date format"), Absent, {}, FALSE, st, nid, t)
        ELSE IF startDate.t > endDate.t
        THEN Out(Errorf("start_date must be before or equal to end_date"), Absent,
                 {}, FALSE, st, nid, t)
        ELSE IF ~userID.ok
        THEN Out(Errorf("invalid user_id format"), Absent, {}, FALSE, st, nid, t)
        ELSE LET r == RepoAggregate(st, startDate.t, endDate.t, userID.v, req.ServiceName)
             IN  IF r.err # RepoOK
                 THEN Out(Errorf("failed to aggregate subscriptions"), Absent,
                          {"Aggregate"}, TRUE, st, nid, t)
                 ELSE Out(NoError, [TotalPrice |-> r.total],
                          {"Aggregate"}, TRUE, st, nid, t)

(***************************************************************************)
(* Boundary adapter (package handler): what the request binding accepts    *)
(* and the status each handler answers on the result c of the service      *)
(* call it made.                                                           *)
(***************************************************************************)
\* binding:"datetime=01-2006": the string is a date written as month-year
Datetime(s) == s.layout = "01-2006"

\* binding of UpdateSubscriptionRequest: Price omitempty,min=0 and EndDate
\* omitempty,datetime=01-2006 (an empty or absent value passes omitempty)
BindUpdate(req) ==
    /\ (req.Price # None => req.Price[1] >= 0)
    /\ (req.EndDate # None => (req.EndDate[1] = EmptyString \/ Datetime(req.EndDate[1])))

\* binding of AggregateRequest: both dates required,datetime=01-2006
BindAggregate(req) == Datetime(req.StartDate) /\ Datetime(req.EndDate)

\* sql.ErrNoRows as an error value, and errors.Is(err, target): the errors of
\* the service wrap no cause but a driver error, so only the value itself
SqlErrNoRows == [type |-> "sql.ErrNoRows", field |-> ""]
ErrorsIs(err, target) == err = target

\* errors.As(err, &validationErr)
ErrorsAsValidation(err) == err.type = "ValidationError"

(*----------------- handler of the typed-error service -------------------*)
GetSubscription(c) ==
    IF c.err # NoError
    THEN (IF ErrorsAsValidation(c.err) THEN 400 ELSE 500)
    ELSE IF c.ret = Absent THEN 404 ELSE 200

UpdateSubscription(c) ==
    IF c.err # NoError
    THEN (IF ErrorsIs(c.err, SqlErrNoRows) THEN 404
          ELSE IF ErrorsIs(c.err, ErrNoUpdates) THEN 400
          ELSE IF ErrorsAsValidation(c.err) THEN 400
          ELSE 500)
    ELSE 200

DeleteSubscription(c) ==
    IF c.err # NoError
    THEN (IF ErrorsIs(c.err, SqlErrNoRows) THEN 404
          ELSE IF ErrorsAsValidation(c.err) THEN 400
          ELSE 500)
    ELSE 200

(*----------------- handler of the plain-error service -------------------*)
PlainGetSubscription(c) ==
    IF c.err # NoError THEN 500
    ELSE IF c.ret = Absent THEN 404 ELSE 200

PlainUpdateSubscription(c) ==
    IF c.err # NoError
    THEN (IF c.err = Errorf("subscription not found") THEN 404 ELSE 500)
    ELSE 200

PlainDeleteSubscription(c) ==
    IF c.err # NoError
    THEN (IF c.err = Errorf("subscription not found") THEN 404 ELSE 500)
    ELSE 200

\* the status answered for the call c of get, update or delete
Status(c) ==
    CASE c.op = "GetByID" ->
            IF c.impl = "plain" THEN PlainGetSubscription(c) ELSE GetSubscription(c)
      [] c.op = "Update" ->
            IF c.impl = "plain" THEN PlainUpdateSubscription(c) ELSE UpdateSubscription(c)
      [] c.op = "Delete" ->
            IF c.impl = "plain" THEN PlainDeleteSubscription(c) ELSE DeleteSubscription(c)

(*------------- an update request, step by step (typed errors) -----------*)
\* c.ShouldBindJSON(&req): the fields of the struct are filled from the keys
\* of the body that name them, every other key is ignored; then the tags
ShouldBindJSON(body) ==
    LET req == [ServiceName |-> IF "service_name" \in DOMAIN body
                                THEN Some(body.service_name) ELSE None,
                Price |-> IF "price" \in DOMAIN body THEN Some(body.price) ELSE None,
                EndDate |-> IF "end_date" \in DOMAIN body
                            THEN Some(body.end_date) ELSE None]
    IN  [ok |-> BindUpdate(req), req |-> req]

\* subscriptionService.Update up to its call of the repository: the error it
\* returns before the call, or the identifier and the map it passes
UpdateArgs(id, req) ==
    LET uuidID == UUIDParse(id)
        endDate == EndDateValue("2006-01-02", req)
        updates == UpdatesMap(Present(req), FieldOr(req.ServiceName, <<>>),
                              FieldOr(req.Price, 0), endDate.t)
    IN  IF ~uuidID.ok THEN [err |-> ValidationError("id"), id |-> 0, updates |-> <<>>]
        ELSE IF req.Price # None /\ req.Price[1] < 0
        THEN [err |-> ValidationError("price"), id |-> 0, updates |-> <<>>]
        ELSE IF ~endDate.ok
        THEN [err |-> ValidationError("end_date"), id |-> 0, updates |-> <<>>]
        ELSE IF DOMAIN updates = {}
        THEN [err |-> ErrNoUpdates, id |-> 0, updates |-> <<>>]
        ELSE [err |-> NoError, id |-> uuidID.id, updates |-> updates]

\* faulty variant: a SET clause that names created_at as well
SetClauses_CreatedAtToo(updates) == DOMAIN updates \cup {"created_at", "updated_at"}

\* the columns subscriptionRepository.Update names in its SET clause
SetClauses(updates) == DOMAIN updates \cup {"updated_at"}

\* the error subscriptionService.Update makes of the repository's
UpdateError(repoErr) ==
    IF repoErr = ErrNoRows THEN NotFoundError
    ELSE IF repoErr # RepoOK THEN Errorf("failed to update subscription")
    ELSE NoError

(***************************************************************************)
(* Requests.  The two subscriptions of the running example, A (Netflix,    *)
(* user 1, 01..03) and B (TV, user 2, from 02, open-ended), and every way  *)
(* one field of such a request can differ: a zero or negative price, a     *)
(* malformed user id or date, an end date at or before the start date.     *)
(***************************************************************************)
IDStrings == {UUIDString(n) : n \in 1..MaxSubs} \cup {MalformedUUID}

ReqA ==
    [ServiceName |-> Netflix, Price |-> 3, UserID |-> UUIDString(1),
     StartDate |-> MonthYear(1), EndDate |-> MonthYear(3)]

ReqB ==
    [ServiceName |-> TV, Price |-> 5, UserID |-> UUIDString(2),
     StartDate |-> MonthYear(2), EndDate |-> EmptyString]

CreateRequests ==
    {ReqA, ReqB}
    \cup {[ReqA EXCEPT !.Price = p] : p \in {-1, 0}}
    \cup {[ReqA EXCEPT !.UserID = MalformedUUID]}
    \cup {[ReqA EXCEPT !.StartDate = d] : d \in {MalformedDate, FullDate(1, 1)}}
    \cup {[ReqB EXCEPT !.EndDate = d] :
            d \in {MonthYear(1), MonthYear(2), MalformedDate, FullDate(3, 1)}}

UpdateRequests ==
    [ServiceName : {None, Some(TV)},
     Price : {None, Some(-1), Some(0), Some(5)},
     EndDate : {None, Some(EmptyString), Some(FullDate(1, 15)), Some(MonthYear(1)),
                Some(MalformedDate)}]

ListRequests ==
    [userID : {None, Some(UUIDString(1)), Some(MalformedUUID)},
     serviceName : {None, Some(<<"n", "e">>)},
     startDate : {None, Some(FullDate(2, 1)), Some(MonthYear(2))},
     endDate : {None, Some(FullDate(2, 1)), Some(MonthYear(3))},
     limit : {0, 1},
     offset : {0, 1}]

PeriodStrings ==
    {FullDate(1, 1), FullDate(2, 1), FullDate(4, 1), FullDate(5, 1),
     MonthYear(2), MonthYear(4), MalformedDate}

AggregateRequests ==
    [UserID : {None, Some(UUIDString(1)), Some(MalformedUUID)},
     ServiceName : {None, Some(<<"n", "e">>)},
     StartDate : PeriodStrings,
     EndDate : PeriodStrings]

\* a third subscription, C (from 03, open-ended), and the requests of the
\* specification that looks at pages: three valid creations, and lists with
\* every limit and offset from -1 to 3
ReqC ==
    [ServiceName |-> Netflix, Price |-> 7, UserID |-> UUIDString(1),
     StartDate |-> MonthYear(3), EndDate |-> EmptyString]

PageCreateRequests == {ReqA, ReqB, ReqC}

PageRequests ==
    [userID : {None},
     serviceName : {None},
     startDate : {None, Some(FullDate(2, 1))},
     endDate : {None},
     limit : -1..3,
     offset : -1..3]

\* the bodies of concurrent update requests: JSON objects, by their keys; one
\* carries a key that is no field of UpdateSubscriptionRequest
Bodies ==
    {<<>>,
     [price |-> 5],
     [price |-> -1],
     [service_name |-> TV],
     [service_name |-> TV, price |-> 0],
     [price |-> 7, end_date |-> EmptyString],
     [end_date |-> MonthYear(2)],
     [price |-> 5, user_id |-> UUIDString(2)]}

\* the requests in flight: one per handler goroutine
Workers == {"w1", "w2"}

(***************************************************************************)
(* State machine.  An operation is one call of the service; its result     *)
(* stays in last until the caller takes it (Return).  Spec is the service  *)
(* with typed errors, PlainSpec the service with plain errors, each over   *)
(* the same repository and table.                                          *)
(***************************************************************************)
NoArg == [none |-> TRUE]

Idle ==
    [op |-> "none", impl |-> "none", id |-> NoArg, req |-> NoArg,
     err |-> NoError, ret |-> Absent, calls |-> {}, exec |-> FALSE]

\* a goroutine that has no request yet
IdleWorker ==
    [pc |-> "idle", id |-> NoArg, body |-> <<>>, updates |-> <<>>, set |-> {},
     t |-> 0, err |-> NoError, status |-> 0]

Init ==
    /\ store = <<>>
    /\ nextID = 1
    /\ now = 0
    /\ last = Idle
    /\ inflight = [w \in Workers |-> IdleWorker]
    /\ applied = <<>>

\* one call: op of implementation impl on (id, req) with outcome out
Call(op, impl, id, req, out) ==
    /\ last = Idle
    /\ out.nextID <= MaxSubs + 1
    /\ out.now <= MaxClock
    /\ store' = out.store
    /\ nextID' = out.nextID
    /\ now' = out.now
    /\ last' = [op |-> op, impl |-> impl, id |-> id, req |-> req,
                err |-> out.err, ret |-> out.ret, calls |-> out.calls,
                exec |-> out.exec]
    /\ UNCHANGED <<inflight, applied>>

Create(req) == Call("Create", "typed", NoArg, req, CreateResult(store, nextID, now, req))

GetByID(id) == Call("GetByID", "typed", id, NoArg, GetByIDResult(store, nextID, now, id))

Update(id, req) ==
    Call("Update", "typed", id, req, UpdateResult(store, nextID, now, id, req))

Delete(id) == Call("Delete", "typed", id, NoArg, DeleteResult(store, nextID, now, id))

List(a) ==
    /\ last = Idle
    /\ \E out \in ListResults(store, nextID, now, a) :
            Call("List", "typed", NoArg, a, out)

Aggregate(req) ==
    Call("Aggregate", "typed", NoArg, req, AggregateResult(store, nextID, now, req))

PlainCreate(req) ==
    Call("Create", "plain", NoArg, req, PlainCreateResult(store, nextID, now, req))

PlainGetByID(id) ==
    Call("GetByID", "plain", id, NoArg, PlainGetByIDResult(store, nextID, now, id))

PlainUpdate(id, req) ==
    Call("Update", "plain", id, req, PlainUpdateResult(store, nextID, now, id, req))

PlainDelete(id) ==
    Call("Delete", "plain", id, NoArg, PlainDeleteResult(store, nextID, now, id))

PlainList(a) ==
    /\ last = Idle
    /\ \E out \in PlainListResults(store, nextID, now, a) :
            Call("List", "plain", NoArg, a, out)

PlainAggregate(req) ==
    Call("Aggregate", "plain", NoArg, req, PlainAggregateResult(store, nextID, now, req))

\* the caller takes the result
Return ==
    /\ last # Idle
    /\ last' = Idle
    /\ UNCHANGED <<store, nextID, now, inflight, applied>>

Next ==
    \/ \E req \in CreateRequests : Create(req)
    \/ \E id \in IDStrings : GetByID(id)
    \/ \E id \in IDStrings, req \in UpdateRequests : Update(id, req)
    \/ \E id \in IDStrings : Delete(id)
    \/ \E a \in ListRequests : List(a)
    \/ \E req \in AggregateRequests : Aggregate(req)
    \/ Return

PlainNext ==
    \/ \E req \in CreateRequests : PlainCreate(req)
    \/ \E id \in IDStrings : PlainGetByID(id)
    \/ \E id \in IDStrings, req \in UpdateRequests : PlainUpdate(id, req)
    \/ \E id \in IDStrings : PlainDelete(id)
    \/ \E a \in ListRequests : PlainList(a)
    \/ \E req \in AggregateRequests : PlainAggregate(req)
    \/ Return

\* the service with typed errors where up to MaxRows subscriptions are created
\* and listed page by page
PageCall(op, id, req, out) ==
    /\ last = Idle
    /\ out.nextID <= MaxRows + 1
    /\ store' = out.store
    /\ nextID' = out.nextID
    /\ now' = out.now
    /\ last' = [op |-> op, impl |-> "typed", id |-> id, req |-> req,
                err |-> out.err, ret |-> out.ret, calls |-> out.calls,
                exec |-> out.exec]
    /\ UNCHANGED <<inflight, applied>>

PageCreate(req) == PageCall("Create", NoArg, req, CreateResult(store, nextID, now, req))

PageList(a) ==
    /\ last = Idle
    /\ \E out \in ListResults(store, nextID, now, a) : PageCall("List", NoArg, a, out)

PageNext ==
    \/ \E req \in PageCreateRequests : PageCreate(req)
    \/ \E a \in PageRequests : PageList(a)
    \/ Return

Spec == Init /\ [][Next]_vars

PageSpec == Init /\ [][PageNext]_vars

(***************************************************************************)
(* Concurrent update requests.  A (01..03) is stored; each goroutine        *)
(* serves one update request in three steps, between which the other may   *)
(* run: Receive (the handler binds the body, the service builds the map),  *)
(* Prepare (the repository lists the SET clause and reads the clock), Exec  *)
(* (the UPDATE statement, one atomic step of the store, and the answer).    *)
(* A Get may run at any point.                                             *)
(***************************************************************************)
\* the state after Create(ReqA) has returned
ConcInit ==
    LET c == CreateResult(<<>>, 1, 0, ReqA)
    IN  /\ store = c.store
        /\ nextID = c.nextID
        /\ now = c.now
        /\ last = Idle
        /\ inflight = [w \in Workers |-> IdleWorker]
        /\ applied = <<>>

\* the handler binds the body and calls Update, which validates and builds
\* the map; on an error of either the request is answered at once
Receive(w, id, body) ==
    LET b == ShouldBindJSON(body)
        a == UpdateArgs(id, b.req)
        me == [inflight[w] EXCEPT !.id = id, !.body = body]
    IN  /\ inflight[w].pc = "idle"
        /\ inflight' = [inflight EXCEPT ![w] =
              IF ~b.ok
              THEN [me EXCEPT !.pc = "done", !.status = 400]
              ELSE IF a.err # NoError
              THEN [me EXCEPT !.pc = "done", !.err = a.err,
                              !.status = UpdateSubscription([err |-> a.err])]
              ELSE [me EXCEPT !.pc = "built", !.updates = a.updates]]
        /\ UNCHANGED <<store, nextID, now, last, applied>>

\* repository.Update before the statement is sent: SET clause and time.Now()
Prepare(w) ==
    /\ inflight[w].pc = "built"
    /\ now' = now + 1
    /\ inflight' = [inflight EXCEPT ![w].pc = "ready",
                                    ![w].set = SetClauses(inflight[w].updates),
                                    ![w].t = now + 1]
    /\ UNCHANGED <<store, nextID, last, applied>>

\* the UPDATE statement runs, and the result goes up to the handler
Exec(w) ==
    LET me == inflight[w]
        r == RepoUpdate(store, UUIDParse(me.id).id, me.updates, me.t)
        err == UpdateError(r.err)
    IN  /\ me.pc = "ready"
        /\ store' = r.store
        /\ applied' = IF r.err = RepoOK THEN Append(applied, w) ELSE applied
        /\ inflight' = [inflight EXCEPT ![w].pc = "done", ![w].err = err,
                            ![w].status = UpdateSubscription([err |-> err])]
        /\ UNCHANGED <<nextID, now, last>>

ConcNext ==
    \/ \E w \in Workers, id \in IDStrings, body \in Bodies : Receive(w, id, body)
    \/ \E w \in Workers : Prepare(w)
    \/ \E w \in Workers : Exec(w)
    \/ \E id \in IDStrings : GetByID(id)
    \/ Return

ConcSpec == ConcInit /\ [][ConcNext]_vars

PlainSpec == Init /\ [][PlainNext]_vars

(***************************************************************************)
(* Properties.                                                             *)
(***************************************************************************)
\* the date a well-formed date string denotes
DateOf(s) == Date(s.m, s.d)

\* a call has just been made: the step from no pending result to one
Called == last = Idle /\ last' # Idle

\* the store holds exactly the example's A (01..03) and B (from 02, open-ended)
ExampleStore ==
    \E a, b \in DOMAIN store :
        /\ DOMAIN store = {a, b}
        /\ store[a].start_date = Date(1, 1) /\ store[a].end_date = Date(3, 1)
        /\ store[b].start_date = Date(2, 1) /\ store[b].end_date = NULL

StoredPriceTotal == SumPrice(store, DOMAIN store)

(*--------------------------------- C1 ----------------------------------*)
\* a stored subscription is active at some time of the window [ps, pe]
Overlaps(row, ps, pe) ==
    row.start_date <= pe /\ (row.end_date = NULL \/ row.end_date >= ps)

\* the sum the claim states for an Aggregate request without service-name filter
OverlapTotal(req) ==
    SumPrice(store,
        {i \in DOMAIN store :
            /\ Overlaps(store[i], DateOf(req.StartDate), DateOf(req.EndDate))
            /\ (req.UserID # None => store[i].user_id = req.UserID[1].n)})

\* an Aggregate call with a well-formed window, start <= end, a well-formed
\* user id if any, and no service-name filter
WindowGiven ==
    /\ last.op = "Aggregate"
    /\ last.req.StartDate.layout = "2006-01-02"
    /\ last.req.EndDate.layout = "2006-01-02"
    /\ DateOf(last.req.StartDate) <= DateOf(last.req.EndDate)
    /\ last.req.UserID # Some(MalformedUUID)
    /\ last.req.ServiceName = None

\* C1 (amended): Aggregate over a window with periodStart <= periodEnd succeeds
\* and returns exactly the sum of the full price of every stored subscription
\* with start_date <= periodEnd and (end_date null or end_date >= periodStart),
\* restricted by the user-id filter when given; that is 0 when none overlaps.
\* For A (01..03) and B (02..open) the window [02, 02] sums both prices and the
\* window [04, 05] sums B's price alone, B being open-ended.
C1_AggregateOverlapSum ==
    WindowGiven =>
        /\ last.err = NoError
        /\ last.ret = [TotalPrice |-> OverlapTotal(last.req)]
        /\ (ExampleStore /\ last.req.UserID = None =>
              /\ (last.req.StartDate = FullDate(2, 1) /\ last.req.EndDate = FullDate(2, 1)
                    => last.ret.TotalPrice = StoredPriceTotal)
              /\ (last.req.StartDate = FullDate(4, 1) /\ last.req.EndDate = FullDate(5, 1)
                    => \E b \in DOMAIN store :
                          /\ store[b].end_date = NULL
                          /\ last.ret.TotalPrice = store[b].price))

\* C1 witness: A (price 3) and B (price 5) are stored and the window [04, 05]
\* without filters has been aggregated to B's price
C1_Witness ==
    /\ WindowGiven /\ ExampleStore /\ last.req.UserID = None
    /\ StoredPriceTotal = 8
    /\ last.req.StartDate = FullDate(4, 1) /\ last.req.EndDate = FullDate(5, 1)
    /\ last.ret = [TotalPrice |-> 5]

\* C1 as stated: the same sum, and for A and B the window [02, 02] sums both
\* prices and the window [04, 05] sums neither
C1_AsStated ==
    WindowGiven =>
        /\ last.err = NoError
        /\ last.ret = [TotalPrice |-> OverlapTotal(last.req)]
        /\ (ExampleStore /\ last.req.UserID = None =>
              /\ (last.req.StartDate = FullDate(2, 1) /\ last.req.EndDate = FullDate(2, 1)
                    => last.ret.TotalPrice = StoredPriceTotal)
              /\ (last.req.StartDate = FullDate(4, 1) /\ last.req.EndDate = FullDate(5, 1)
                    => last.ret.TotalPrice = 0))

(*--------------------------------- C2 ----------------------------------*)
\* C2: Update with a valid id and no field present returns the no-updates
\* condition and makes no storage call: no repository method is called, no
\* statement is sent, the store is unchanged
C2_NoUpdates ==
    [][(/\ Called
        /\ last'.op = "Update"
        /\ last'.id.uuid
        /\ last'.req.ServiceName = None
        /\ last'.req.Price = None
        /\ last'.req.EndDate = None)
       => (/\ last'.err = ErrNoUpdates
           /\ last'.calls = {}
           /\ ~last'.exec
           /\ store' = store)]_vars

(*--------------------------------- C3 ----------------------------------*)
\* the not-found condition of either service
IsNotFound(err) == err = NotFoundError \/ err = Errorf("subscription not found")

\* an Update or Delete call on a well-formed identifier that matches no row,
\* the Update with at least one field present
OnMissingRow ==
    /\ Called
    /\ last'.op \in {"Update", "Delete"}
    /\ last'.id.uuid
    /\ last'.id.n \notin DOMAIN store
    /\ (last'.op = "Update" => Present(last'.req) # {})

\* every present field of the update request is valid: the price is not
\* negative, the end date is "" or a date in the layout Update parses
FieldsValid(req) ==
    /\ (req.Price # None => req.Price[1] >= 0)
    /\ (req.EndDate # None =>
            req.EndDate[1] = EmptyString \/ req.EndDate[1].layout = "2006-01-02")

\* C3 (amended): Update with at least one field present and every present
\* field valid, or Delete, on a well-formed identifier that matches no stored
\* row returns the not-found condition and leaves the store unchanged, also
\* after the row was deleted earlier
C3_NotFound ==
    [][(OnMissingRow /\ (last'.op = "Update" => FieldsValid(last'.req)))
       => (IsNotFound(last'.err) /\ store' = store)]_vars

\* C3 witness: not-found for an identifier that was handed out before, in a
\* store that holds another row
C3_Witness ==
    /\ last.op \in {"Update", "Delete"}
    /\ IsNotFound(last.err)
    /\ last.id.n < nextID
    /\ DOMAIN store # {}

\* C3 as stated: every Update with at least one field present, valid or not
C3_AsStated ==
    [][OnMissingRow => (IsNotFound(last'.err) /\ store' = store)]_vars

(*--------------------------------- C4 ----------------------------------*)
\* C4: Get by a well-formed identifier that matches no row returns the absent
\* value and no error; Get with a matching row returns that row
C4_GetAbsent ==
    (last.op = "GetByID" /\ last.id.uuid) =>
        /\ last.err = NoError
        /\ last.ret = (IF last.id.n \in DOMAIN store THEN store[last.id.n] ELSE Absent)

(*--------------------------------- C5 ----------------------------------*)
\* a successful Update call
Updated == Called /\ last'.op = "Update" /\ last'.err = NoError

\* C5: a successful Update changes, on the addressed row, only the columns
\* whose fields are present in the request, plus updated_at: every absent
\* field keeps its value; id, user_id, start_date and created_at never change;
\* every other row, and the set of rows, is unchanged
C5_PartialUpdateIsolation ==
    [][Updated =>
        LET id == last'.id.n
            req == last'.req
        IN  /\ id \in DOMAIN store
            /\ DOMAIN store' = DOMAIN store
            /\ \A i \in DOMAIN store \ {id} : store'[i] = store[i]
            /\ (req.ServiceName = None => store'[id].service_name = store[id].service_name)
            /\ (req.Price = None => store'[id].price = store[id].price)
            /\ (req.EndDate = None => store'[id].end_date = store[id].end_date)
            /\ store'[id].id = store[id].id
            /\ store'[id].user_id = store[id].user_id
            /\ store'[id].start_date = store[id].start_date
            /\ store'[id].created_at = store[id].created_at]_vars

\* C5 witness: only the price of one of two rows has been updated, the row
\* keeping its end date and its name
C5_Witness ==
    /\ last.op = "Update" /\ last.err = NoError
    /\ last.req.ServiceName = None /\ last.req.EndDate = None
    /\ last.req.Price = Some(5)
    /\ Cardinality(DOMAIN store) = 2
    /\ store[last.id.n].price = 5
    /\ store[last.id.n].end_date = Date(3, 1)
    /\ store[last.id.n].service_name = Netflix

(*--------------------------------- C6 ----------------------------------*)
\* C6: a successful Update whose end-date field is present and "" sets
\* end_date of the row to null, and one whose end-date field is absent leaves
\* end_date as it was; a Get that finds the row returns it as stored, so with
\* end_date absent after the clearing
C6_ClearVersusIgnore ==
    [][/\ (Updated /\ last'.req.EndDate = Some(EmptyString)
              => store'[last'.id.n].end_date = NULL)
       /\ (Updated /\ last'.req.EndDate = None
              => store'[last'.id.n].end_date = store[last'.id.n].end_date)
       /\ (Called /\ last'.op = "GetByID" /\ last'.err = NoError
              => last'.ret = store[last'.id.n])]_vars

\* C6 witness: the row created with the end date 03 has had it cleared
C6_Witness ==
    /\ last.op = "Update" /\ last.err = NoError
    /\ last.req.EndDate = Some(EmptyString)
    /\ store[last.id.n].start_date = Date(1, 1)
    /\ store[last.id.n].end_date = NULL

(*--------------------------------- C7 ----------------------------------*)
\* a Create request whose dates are well formed, the end date before the start
EndBeforeStart(req) ==
    /\ req.StartDate.layout = "01-2006"
    /\ req.EndDate.layout = "01-2006"
    /\ DateOf(req.EndDate) < DateOf(req.StartDate)

\* C7: Create with an end date earlier than the start date fails with a
\* validation error, not a storage error, and inserts no row
C7_CreateEndBeforeStart ==
    [][(Called /\ last'.op = "Create" /\ last'.req.Price >= 0
           /\ last'.req.UserID.uuid /\ EndBeforeStart(last'.req))
       => (last'.err.type = "ValidationError" /\ store' = store)]_vars

(*--------------------------------- C8 ----------------------------------*)
\* the layout in which a service reads the period of an Aggregate request
PeriodLayout(impl) == IF impl = "plain" THEN "01-2006" ELSE "2006-01-02"

\* an Aggregate call whose two dates are well formed
PeriodParsed ==
    /\ Called
    /\ last'.op = "Aggregate"
    /\ last'.req.StartDate.layout = PeriodLayout(last'.impl)
    /\ last'.req.EndDate.layout = PeriodLayout(last'.impl)

\* the error that rejects an inverted period, typed or plain
IsRangeError(err) ==
    \/ err = ValidationError("date_range")
    \/ err = Errorf("start_date must be before or equal to end_date")

\* C8: Aggregate with periodStart after periodEnd fails with a validation
\* error tagged "date_range" and the store is never queried; periodStart equal
\* to periodEnd is accepted
C8_DateRange ==
    [][PeriodParsed =>
        /\ (DateOf(last'.req.StartDate) > DateOf(last'.req.EndDate) =>
              /\ last'.err = ValidationError("date_range")
              /\ last'.calls = {}
              /\ ~last'.exec
              /\ store' = store)
        /\ (DateOf(last'.req.StartDate) = DateOf(last'.req.EndDate) =>
              ~IsRangeError(last'.err))]_vars

(*--------------------------------- C9 ----------------------------------*)
\* the layout in which the typed service reads the dates of each operation
DateLayout(op) == IF op = "Create" THEN "01-2006" ELSE "2006-01-02"

IllFormed(s, layout) == s.layout # layout

\* the request of the call is invalid in one of the ways the claim lists
InvalidRequest(c) ==
    CASE c.op = "Create" ->
            \/ c.req.Price < 0
            \/ ~c.req.UserID.uuid
            \/ IllFormed(c.req.StartDate, DateLayout(c.op))
            \/ (c.req.EndDate # EmptyString /\ IllFormed(c.req.EndDate, DateLayout(c.op)))
      [] c.op \in {"GetByID", "Delete"} -> ~c.id.uuid
      [] c.op = "Update" ->
            \/ ~c.id.uuid
            \/ (c.req.Price # None /\ c.req.Price[1] < 0)
            \/ (c.req.EndDate # None /\ c.req.EndDate[1] # EmptyString
                  /\ IllFormed(c.req.EndDate[1], DateLayout(c.op)))
      [] c.op = "List" ->
            \/ (c.req.userID # None /\ ~c.req.userID[1].uuid)
            \/ (c.req.startDate # None /\ IllFormed(c.req.startDate[1], DateLayout(c.op)))
            \/ (c.req.endDate # None /\ IllFormed(c.req.endDate[1], DateLayout(c.op)))
      [] c.op = "Aggregate" ->
            \/ IllFormed(c.req.StartDate, DateLayout(c.op))
            \/ IllFormed(c.req.EndDate, DateLayout(c.op))
            \/ DateOf(c.req.StartDate) > DateOf(c.req.EndDate)
            \/ (c.req.UserID # None /\ ~c.req.UserID[1].uuid)
      [] OTHER -> FALSE

\* the request carries a negative price and nothing is checked before it
NegativePriceFirst(c) ==
    \/ (c.op = "Create" /\ c.req.Price < 0)
    \/ (c.op = "Update" /\ c.id.uuid /\ c.req.Price # None /\ c.req.Price[1] < 0)

\* C9: every invalid request (malformed identifier or user id, malformed date,
\* negative price, inverted aggregate period) is answered with a validation
\* error, a negative price with the one tagged "price"; and whenever a call
\* returns a validation error it has called no repository method, sent no
\* statement, and left the store unchanged
C9_ValidationBeforeStorage ==
    [][Called =>
        /\ (InvalidRequest(last') => last'.err.type = "ValidationError")
        /\ (NegativePriceFirst(last') => last'.err = ValidationError("price"))
        /\ (last'.err.type = "ValidationError" =>
              /\ InvalidRequest(last')
              /\ last'.calls = {}
              /\ ~last'.exec
              /\ store' = store)]_vars

\* C9 witness: a negative price was refused on an update of a stored row
C9_Witness ==
    /\ last.op = "Update"
    /\ last.id.n \in DOMAIN store
    /\ last.req.Price = Some(-1)
    /\ last.err = ValidationError("price")
    /\ last.calls = {}

(*--------------------------------- C10 ---------------------------------*)
\* every stored subscription has price >= 0 and no end date before its start
StoreInvariant ==
    \A i \in DOMAIN store :
        /\ store[i].price >= 0
        /\ (store[i].end_date # NULL => store[i].end_date >= store[i].start_date)

\* the update request would put the row's end date before its start date, or
\* its price below 0
WouldBreak(row, req) ==
    \/ (req.Price # None /\ req.Price[1] < 0)
    \/ (/\ req.EndDate # None
        /\ req.EndDate[1].layout = "2006-01-02"
        /\ DateOf(req.EndDate[1]) < row.start_date)

\* C10: in every reachable state every stored subscription has price >= 0
\* and, when its end date is present, end_date >= start_date; an update that
\* would set end_date before the row's start_date, or price below 0, does not
\* take effect
C10_StoreInvariant ==
    /\ []StoreInvariant
    /\ [][(/\ Called
           /\ last'.op = "Update"
           /\ last'.id.uuid
           /\ last'.id.n \in DOMAIN store
           /\ WouldBreak(store[last'.id.n], last'.req))
          => (last'.err # NoError /\ store' = store)]_vars

\* C10 witness: the store refused an update that would have put the end date
\* of the row before its start date
C10_Witness ==
    /\ last.op = "Update"
    /\ last.err = Errorf("failed to update subscription")
    /\ last.req.EndDate = Some(FullDate(1, 15))
    /\ last.req.Price = None
    /\ store[last.id.n].start_date = Date(2, 1)

(*--------------------------------- C11 ---------------------------------*)
\* a Create call has succeeded
Created(c) == c.op = "Create" /\ c.err = NoError

\* the subscription is the one the create request describes
AsRequested(sub, req) ==
    /\ sub.service_name = req.ServiceName
    /\ sub.price = req.Price
    /\ sub.user_id = req.UserID.n
    /\ sub.start_date = DateOf(req.StartDate)
    /\ sub.end_date = (IF req.EndDate = EmptyString THEN NULL ELSE DateOf(req.EndDate))

\* two subscriptions equal in everything but the timestamps
SameButTimestamps(a, b) ==
    /\ a.id = b.id
    /\ a.service_name = b.service_name
    /\ a.price = b.price
    /\ a.user_id = b.user_id
    /\ a.start_date = b.start_date
    /\ a.end_date = b.end_date

\* what a Get by the identifier that the pending Create returned would give
GetCreated == GetByIDResult(store, nextID, now, UUIDString(last.ret.id))

\* C11: after a successful Create, Get by the returned identifier succeeds and
\* yields a subscription equal to the returned one, and to the request, in id,
\* service name, price, user id, start date and end date, with created_at =
\* updated_at, both set; the identifier Create returns is distinct from every
\* identifier handed out before, it is not in the store before the call, and
\* the call leaves every row that was stored as it was
C11_RoundTrip ==
    /\ [](Created(last) =>
            /\ GetCreated.err = NoError
            /\ SameButTimestamps(GetCreated.ret, last.ret)
            /\ AsRequested(GetCreated.ret, last.req)
            /\ GetCreated.ret.created_at = GetCreated.ret.updated_at
            /\ GetCreated.ret.created_at > 0)
    /\ [](\A i \in DOMAIN store : i < nextID)
    /\ [][(Called /\ Created(last')) =>
            /\ last'.ret.id >= nextID
            /\ last'.ret.id \notin DOMAIN store
            /\ DOMAIN store' = DOMAIN store \cup {last'.ret.id}
            /\ \A i \in DOMAIN store : store'[i] = store[i]]_vars

\* C11 witness: the open-ended B has been created second, beside a row
\* created before it
C11_Witness ==
    /\ Created(last)
    /\ DOMAIN store = {1, 2}
    /\ last.ret.id = 2
    /\ store[2].end_date = NULL
    /\ store[2].created_at = store[2].updated_at
    /\ store[2].created_at > store[1].created_at

(*--------------------------------- C12 ---------------------------------*)
\* the update request names at least one field and every field it names
\* carries the value the row has already
NoOp(row, req) ==
    /\ Present(req) # {}
    /\ (req.ServiceName # None => req.ServiceName[1] = row.service_name)
    /\ (req.Price # None => req.Price[1] = row.price)
    /\ (req.EndDate # None =>
            \/ (req.EndDate[1] = EmptyString /\ row.end_date = NULL)
            \/ (req.EndDate[1].layout = "2006-01-02"
                  /\ DateOf(req.EndDate[1]) = row.end_date))

WholePeriod ==
    [UserID |-> None, ServiceName |-> None,
     StartDate |-> FullDate(1, 1), EndDate |-> FullDate(5, 1)]

\* a List request without filter or page
Everything ==
    [userID |-> None, serviceName |-> None, startDate |-> None, endDate |-> None,
     limit |-> 0, offset |-> 0]

\* an update request all of whose fields are valid
TouchName == [ServiceName |-> Some(TV), Price |-> None, EndDate |-> None]

\* C13: Delete on a stored identifier succeeds and removes exactly that row,
\* every other row staying as it was; right after it the gateway's Get for the
\* identifier gives the absent value and the service's Get gives no
\* subscription and no storage error, Update and Delete for it give not-found,
\* no List result holds a row of that identifier, and Aggregate over a window
\* that all rows overlap gives the former total less the row's price
C13_Delete ==
    [][(/\ Called
        /\ last'.op = "Delete"
        /\ last'.id.uuid
        /\ last'.id.n \in DOMAIN store)
       => LET id == last'.id.n
              get == GetByIDResult(store', nextID', now', last'.id)
              upd == UpdateResult(store', nextID', now', last'.id, TouchName)
              del == DeleteResult(store', nextID', now', last'.id)
              agg == AggregateResult(store', nextID', now', WholePeriod)
          IN  /\ last'.err = NoError
              /\ DOMAIN store' = DOMAIN store \ {id}
              /\ \A i \in DOMAIN store' : store'[i] = store[i]
              /\ RepoGetByID(store', id) = [err |-> RepoOK, sub |-> Absent]
              /\ get.ret = Absent /\ get.err \in {NoError, NotFoundError}
              /\ IsNotFound(upd.err) /\ upd.store = store'
              /\ IsNotFound(del.err) /\ del.store = store'
              /\ \A out \in ListResults(store', nextID', now', Everything) :
                    /\ out.err = NoError
                    /\ \A k \in DOMAIN out.ret.rows : out.ret.rows[k].id # id
              /\ agg.ret.TotalPrice = StoredPriceTotal - store[id].price]_vars

\* C13 witness: the first of two rows has been deleted, the second is left
C13_Witness ==
    /\ last.op = "Delete" /\ last.err = NoError
    /\ last.id.n = 1
    /\ DOMAIN store = {2}
    /\ nextID = 3

(*--------------------------------- C14 ---------------------------------*)
\* a List call with well-formed filters, no service-name filter and no page
Listed(c) ==
    /\ c.op = "List"
    /\ c.req.userID # Some(MalformedUUID)
    /\ (c.req.startDate # None => c.req.startDate[1].layout = "2006-01-02")
    /\ (c.req.endDate # None => c.req.endDate[1].layout = "2006-01-02")
    /\ c.req.serviceName = None
    /\ c.req.limit = 0 /\ c.req.offset = 0

\* the stored row satisfies every filter the List request supplies
Satisfies(row, a) ==
    /\ (a.userID # None => row.user_id = a.userID[1].n)
    /\ (a.startDate # None => row.start_date >= DateOf(a.startDate[1]))
    /\ (a.endDate # None =>
            (row.end_date = NULL \/ row.end_date <= DateOf(a.endDate[1])))

\* C14: List with well-formed filters (no service-name filter, no page)
\* succeeds and returns exactly the stored subscriptions that satisfy every
\* supplied filter, each once, as stored, ordered by start_date descending;
\* a null end_date satisfies every end-date bound and an absent filter
\* excludes nothing
C14_ListFilter ==
    Listed(last) =>
        LET rows == last.ret.rows
        IN  /\ last.err = NoError
            /\ {rows[k] : k \in DOMAIN rows}
                  = {store[i] : i \in {j \in DOMAIN store : Satisfies(store[j], last.req)}}
            /\ \A k, l \in DOMAIN rows : k # l => rows[k].id # rows[l].id
            /\ \A k, l \in DOMAIN rows : k < l => rows[k].start_date >= rows[l].start_date
            /\ (last.req = Everything => Len(rows) = Cardinality(DOMAIN store))

\* C14 witness: with A (01..03) and B (from 02, open-ended) stored, the bounds
\* start >= 02 and end <= 02 have selected B alone, its end date being null
C14_Witness ==
    /\ Listed(last) /\ ExampleStore
    /\ last.req.startDate = Some(FullDate(2, 1))
    /\ last.req.endDate = Some(FullDate(2, 1))
    /\ Len(last.ret.rows) = 1
    /\ last.ret.rows[1].end_date = NULL

(*--------------------------------- C16 ---------------------------------*)
\* C16: a List that succeeds with no row to return gives an empty sequence,
\* never the nil one
C16_ListNeverNil ==
    (last.op = "List" /\ last.err = NoError /\ last.ret.rows = <<>>)
        => ~last.ret.isNil

(*--------------------------------- C19 ---------------------------------*)
\* a validation error of a date field
IsDateError(err) ==
    /\ err.type = "ValidationError"
    /\ err.field \in {"start_date", "end_date", "request"}

\* C19: a date string that the request binding accepts (month-year) is
\* accepted by the service's parse of the same field: an Update with a
\* well-formed identifier and a non-empty end date the binding accepts, and an
\* Aggregate whose two dates the binding accepts with start <= end, do not
\* fail with a date validation error, nor does such a Create
C19_OneDateFormat ==
    /\ (/\ last.op = "Update"
        /\ last.id.uuid
        /\ BindUpdate(last.req)
        /\ last.req.EndDate # None
        /\ last.req.EndDate[1] # EmptyString) => ~IsDateError(last.err)
    /\ (/\ last.op = "Aggregate"
        /\ BindAggregate(last.req)
        /\ DateOf(last.req.StartDate) <= DateOf(last.req.EndDate))
            => ~IsDateError(last.err)
    /\ (/\ last.op = "Create"
        /\ last.req.Price >= 0
        /\ last.req.UserID.uuid
        /\ Datetime(last.req.StartDate)
        /\ (last.req.EndDate = EmptyString \/ Datetime(last.req.EndDate)))
            => ~IsDateError(last.err)

(*--------------------------------- C20 ---------------------------------*)
\* a get, update or delete call on a well-formed identifier that matches no
\* stored row, the update with at least one field and every field valid
MissingRowRequested ==
    /\ Called
    /\ last'.op \in {"GetByID", "Update", "Delete"}
    /\ last'.id.uuid
    /\ last'.id.n \notin DOMAIN store
    /\ (last'.op = "Update" => (Present(last'.req) # {} /\ FieldsValid(last'.req)))

\* C20: a get, update or delete for a well-formed identifier that matches no
\* stored row is answered with status 404
C20_NotFoundStatus ==
    [][MissingRowRequested => Status(last') = 404]_vars

(*--------------------------------- C15 ---------------------------------*)
\* the stored rows that satisfy the filters of the pending List call
Matching == {i \in DOMAIN store : Satisfies(store[i], last.req)}

\* the sequences that hold each identifier of S once, start dates descending
Descending(S) ==
    {s \in [1..Cardinality(S) -> S] :
        /\ \A k, l \in DOMAIN s : k # l => s[k] # s[l]
        /\ \A k, l \in DOMAIN s : k < l => store[s[k]].start_date >= store[s[l]].start_date}

Max(a, b) == IF a > b THEN a ELSE b

\* the elements of s at the 0-based positions O .. O+L-1, fewer when s ends;
\* all from O on when L <= 0, from the first when O <= 0
Window(s, L, O) ==
    LET skip == Max(O, 0)
        rest == Max(Len(s) - skip, 0)
        count == IF L > 0 THEN Min(L, rest) ELSE rest
    IN  [k \in 1..count |-> s[skip + k]]

\* three rows match, with three different start dates
ThreeMatch ==
    /\ Cardinality(Matching) = 3
    /\ \A i, j \in Matching : i # j => store[i].start_date # store[j].start_date

\* C15: a List with limit L and offset O returns the elements at positions
\* O .. O+L-1 (0-based, fewer when the sequence ends) of the matching rows
\* ordered by start_date descending, so at most L rows when L > 0; limit <= 0
\* applies no limit and offset <= 0 skips nothing; with limit 1 and offset 1
\* over three matching subscriptions it returns exactly the one with the
\* second-most-recent start date
C15_Pagination ==
    (last.op = "List" /\ last.err = NoError) =>
        LET rows == last.ret.rows
            L == last.req.limit
            O == last.req.offset
        IN  /\ \E s \in Descending(Matching) :
                  rows = [k \in DOMAIN Window(s, L, O) |-> store[Window(s, L, O)[k]]]
            /\ (L > 0 => Len(rows) <= L)
            /\ (L <= 0 /\ O <= 0 => Len(rows) = Cardinality(Matching))
            /\ (ThreeMatch /\ L = 1 /\ O = 1 =>
                  /\ Len(rows) = 1
                  /\ Cardinality({i \in Matching :
                        store[i].start_date > rows[1].start_date}) = 1
                  /\ Cardinality({i \in Matching :
                        store[i].start_date < rows[1].start_date}) = 1)

\* C15 witness: A (from 01), B (from 02) and C (from 03) are stored and the
\* list without filter, limit 1 and offset 1, has returned B alone
C15_Witness ==
    /\ last.op = "List" /\ last.err = NoError
    /\ last.req.startDate = None
    /\ last.req.limit = 1 /\ last.req.offset = 1
    /\ ThreeMatch
    /\ Len(last.ret.rows) = 1
    /\ last.ret.rows[1].start_date = Date(2, 1)

(*--------------------------------- C17 ---------------------------------*)
\* the row both requests address, as it was created
BaseRow == CreateResult(<<>>, 1, 0, ReqA).ret

\* the positions in seq of the requests that write column c
WritersOf(seq, c) == {k \in DOMAIN seq : c \in DOMAIN inflight[seq[k]].updates}

\* the row after the statements of the requests in seq have run in that
\* order, each as a whole: a column holds the value of the last request in
\* seq that writes it, the created value if none does; updated_at the time
\* the last request read
RowAfter(seq) ==
    [c \in DOMAIN BaseRow |->
        IF c = "updated_at"
        THEN (IF seq = <<>> THEN BaseRow.updated_at ELSE inflight[seq[Len(seq)]].t)
        ELSE IF WritersOf(seq, c) = {} THEN BaseRow[c]
        ELSE LET k == CHOOSE k \in WritersOf(seq, c) : \A j \in WritersOf(seq, c) : j <= k
             IN  inflight[seq[k]].updates[c]]

\* C17: with two update requests for one subscription in flight, in every
\* interleaving, the row is at every moment the created row with the
\* statements run so far applied one after the other, each as a whole; so
\* once both have run, a column written by one of them holds that writer's
\* value, a column written by both the value of the one whose statement ran
\* last, a column written by neither the created value; and what a Get
\* returns is the row after some number of whole statements
C17_ConcurrentUpdates ==
    /\ DOMAIN store = {BaseRow.id}
    /\ store[BaseRow.id] = RowAfter(applied)
    /\ (Len(applied) = 2 =>
          \A c \in Columns :
             LET first == inflight[applied[1]].updates
                 second == inflight[applied[2]].updates
                 v == store[BaseRow.id][c]
             IN  /\ (c \in DOMAIN second => v = second[c])
                 /\ (c \in DOMAIN first /\ c \notin DOMAIN second => v = first[c])
                 /\ (c \notin DOMAIN first /\ c \notin DOMAIN second => v = BaseRow[c]))
    /\ ((last.op = "GetByID" /\ last.err = NoError) =>
          \E n \in 0..Len(applied) : last.ret = RowAfter(SubSeq(applied, 1, n)))

\* C17 witness: one request wrote the name, the other the price and the end
\* date, the second statement prepared before the first and run after it;
\* the row holds all three values
C17_Witness ==
    /\ Len(applied) = 2
    /\ DOMAIN inflight[applied[1]].updates = {"service_name"}
    /\ DOMAIN inflight[applied[2]].updates = {"price", "end_date"}
    /\ inflight[applied[2]].t < inflight[applied[1]].t
    /\ store[BaseRow.id].service_name = TV
    /\ store[BaseRow.id].price = 7
    /\ store[BaseRow.id].end_date = NULL

(*--------------------------------- C18 ---------------------------------*)
\* C18: for every update request, every key of the map that the service
\* hands to the repository is one of service_name, price, end_date, and a
\* key of the body; every column the SET clause names is one of these three
\* or updated_at; a key of the body that is none of the three names no column
C18_ColumnAllowList ==
    \A w \in Workers :
        /\ DOMAIN inflight[w].updates \subseteq Columns
        /\ DOMAIN inflight[w].updates \subseteq DOMAIN inflight[w].body
        /\ inflight[w].set \subseteq Columns \cup {"updated_at"}
        /\ (DOMAIN inflight[w].body \ Columns) \cap inflight[w].set = {}

\* C18 witness: the request whose body carries the key user_id has been
\* carried out with a SET clause of price and updated_at
C18_Witness ==
    \E w \in Workers :
        /\ inflight[w].pc = "done"
        /\ inflight[w].status = 200
        /\ "user_id" \in DOMAIN inflight[w].body
        /\ inflight[w].set = {"price", "updated_at"}
        /\ store[BaseRow.id].price = inflight[w].body.price

(*--------------------------------- C21 ---------------------------------*)
\* name contains f, letter case apart
Contains(name, f) ==
    \E i \in 0..(Len(name) - Len(f)) :
        \A k \in 1..Len(f) : Lower(name[i + k]) = Lower(f[k])

\* an Aggregate call that succeeded, with a service-name filter and no user
\* filter, over a window that every stored row overlaps
NameAggregated ==
    /\ last.op = "Aggregate" /\ last.err = NoError
    /\ last.req.ServiceName # None
    /\ last.req.UserID = None
    /\ \A i \in DOMAIN store :
          Overlaps(store[i], DateOf(last.req.StartDate), DateOf(last.req.EndDate))

\* C21: the service-name filter selects the same subscriptions in Aggregate
\* as in List: over a window that all rows overlap, Aggregate returns the sum
\* of the prices of the rows List returns for the same filter value, which
\* are the rows whose service name contains the value, letter case apart
C21_SameNameFilter ==
    NameAggregated =>
        LET f == last.req.ServiceName[1]
        IN  /\ \A out \in ListResults(store, nextID, now,
                                      [Everything EXCEPT !.serviceName = Some(f)]) :
                  /\ out.err = NoError
                  /\ {out.ret.rows[k].id : k \in DOMAIN out.ret.rows}
                        = {i \in DOMAIN store : Contains(store[i].service_name, f)}
                  /\ last.ret.TotalPrice
                        = SumPrice(store, {out.ret.rows[k].id : k \in DOMAIN out.ret.rows})
            /\ last.ret.TotalPrice
                  = SumPrice(store, {i \in DOMAIN store : Contains(store[i].service_name, f)})

====
